---------------------------- MODULE Spec2Model ----------------------------
(***************************************************************************)
(* Model of corpus_tools.py: the Corpus window generator, the context      *)
(* window iterator, the aggregation pass fit(), the lazily fitted          *)
(* properties, and the constructors of Corpus and RedditCorpus.            *)
(*                                                                         *)
(* Python values are modelled as follows.  A list is a sequence; Python    *)
(* index i is TLA+ index i + 1.  A dict whose                              *)
(* order is never observed is a function; a Counter, whose insertion order *)
(* decides most_common(), is a sequence of records.  An attribute that may *)
(* be None holds None or Some(value).                                      *)
(***************************************************************************)
EXTENDS Integers, Sequences, FiniteSets, TLC

VARIABLES
    region,                 \* the token list handed to window / region_context_windows
    window_call,            \* the last call of window: its arguments and its result
    yielded,                \* the triples region_context_windows has yielded so far
    left_size, right_size,  \* self.left_size, self.right_size
    corpus,                 \* what tokenized_regions() produces: a sequence of regions
    _words,                 \* self._words
    _word_index,            \* self._word_index
    _cooccurrence_matrix,   \* self._cooccurrence_matrix
    cooccurrence_counts,    \* fit's local of that name, as the last loop left it
    fit_calls,              \* how many times fit() has been entered
    fit_outcome,            \* how the last run of fit() ended
    last_access,            \* the last property access and what it did
    phase,                  \* "new", "constructed" or "raised" (the constructor)
    cls,                    \* the class being constructed
    kwargs,                 \* the keyword arguments given to Corpus.__init__
    path, isdir, listdir,   \* RedditCorpus's argument and the file system under it
    file_paths              \* self.file_paths

vars == <<region, window_call, yielded, left_size, right_size, corpus, _words,
          _word_index, _cooccurrence_matrix, cooccurrence_counts, fit_calls,
          fit_outcome, last_access, phase, cls, kwargs, path, isdir, listdir,
          file_paths>>

windowVars == <<region, window_call, yielded>>
fitVars == <<corpus, cooccurrence_counts, fit_calls, fit_outcome, last_access>>
cacheVars == <<_words, _word_index, _cooccurrence_matrix>>
ctorVars == <<phase, cls, kwargs, path, isdir, listdir, file_paths>>

-----------------------------------------------------------------------------
(* Bounds of the model. *)

MaxRegionLen == 3
MaxSize == 2
MaxTokens == 3
MaxFitCalls == 2

(* The tokens a tokenizer produces.  NULL_WORD is not one of them: the     *)
(* only tokenizer of the source, wordpunct_tokenize, splits "<null>" into  *)
(* "<", "null", ">".                                                       *)
Tokens == {"a", "b"}

NULL_WORD == "<null>"

\* Python's None, and a value that is not None
None == [is_none |-> TRUE]

Some(v) == [is_none |-> FALSE, value |-> v]

\* The last_access before any access
NoAccess == [accessed |-> FALSE, ran_fit |-> FALSE, raised |-> FALSE]

-----------------------------------------------------------------------------
(* Python built-ins. *)

Min(a, b) == IF a < b THEN a ELSE b

Max(a, b) == IF a > b THEN a ELSE b

Abs(a) == IF a < 0 THEN -a ELSE a

Range(s) == {s[k] : k \in DOMAIN s}

\* itertools.repeat(x, n), consumed
Repeat(x, n) == [k \in 1..n |-> x]

\* seq[lo:hi]: a negative bound counts from the end, and both are clamped
PySlice(seq, lo, hi) ==
    LET n == Len(seq)
        norm(i) == IF i < 0 THEN Max(i + n, 0) ELSE Min(i, n)
        a == norm(lo)
        b == norm(hi)
    IN  [k \in 1..(b - a) |-> seq[a + k]]

\* All sequences over S of length lo..hi
SeqsOf(S, lo, hi) == UNION {[1..n -> S] : n \in lo..hi}

-----------------------------------------------------------------------------
(* Corpus.window *)

window(rgn, start_index, end_index) ==
    LET last_index == Len(rgn) + 1
        front_nulls == Repeat(NULL_WORD, Abs(Min(start_index, 0)))
        back_nulls == Repeat(NULL_WORD, Max(end_index - last_index, 0))
        selected_tokens == PySlice(rgn, Max(start_index, 0),
                                   Min(end_index, last_index) + 1)
    IN  front_nulls \o selected_tokens \o back_nulls

\* region_context_windows with the right context starting at the focus word
region_context_windows_from_focus(rgn, l_size, r_size) ==
    [k \in 1..Len(rgn) |->
        LET i == k - 1
            start_index == i - l_size
            end_index == i + r_size
        IN  [left_context |-> window(rgn, start_index, i - 1),
             word |-> rgn[k],
             right_context |-> window(rgn, i, end_index)]]

(* Corpus.region_context_windows, as the list of everything it yields *)
region_context_windows(rgn, l_size, r_size) ==
    [k \in 1..Len(rgn) |->
        LET i == k - 1
            start_index == i - l_size
            end_index == i + r_size
        IN  [left_context |-> window(rgn, start_index, i - 1),
             word |-> rgn[k],
             right_context |-> window(rgn, i + 1, end_index)]]

-----------------------------------------------------------------------------
(* collections.Counter, kept in insertion order: a sequence of records     *)
(* [word, count].                                                          *)

\* counter[item] += 1, a new key going to the end
counter_add(counter, item) ==
    IF \E k \in DOMAIN counter : counter[k].word = item
    THEN [k \in DOMAIN counter |->
            IF counter[k].word = item
            THEN [counter[k] EXCEPT !.count = @ + 1]
            ELSE counter[k]]
    ELSE Append(counter, [word |-> item, count |-> 1])

\* Counter.update(iterable)
RECURSIVE counter_update(_, _)
counter_update(counter, items) ==
    IF items = <<>>
    THEN counter
    ELSE counter_update(counter_add(counter, Head(items)), Tail(items))

\* most_common with an unstable sort: an item goes before the items of its count
RECURSIVE most_common_unstable(_)
most_common_unstable(counter) ==
    IF counter = <<>>
    THEN <<>>
    ELSE LET n == Len(counter)
             rest == most_common_unstable(SubSeq(counter, 1, n - 1))
             last == counter[n]
             pos == Cardinality({k \in DOMAIN rest : rest[k].count > last.count})
         IN  SubSeq(rest, 1, pos) \o <<last>> \o SubSeq(rest, pos + 1, Len(rest))

\* Counter.most_common(): sorted(items, key=count, reverse=True), which is
\* stable: an item goes behind every item whose count is not smaller.
RECURSIVE most_common(_)
most_common(counter) ==
    IF counter = <<>>
    THEN <<>>
    ELSE LET n == Len(counter)
             rest == most_common(SubSeq(counter, 1, n - 1))
             last == counter[n]
             pos == Cardinality({k \in DOMAIN rest : rest[k].count >= last.count})
         IN  SubSeq(rest, 1, pos) \o <<last>> \o SubSeq(rest, pos + 1, Len(rest))

-----------------------------------------------------------------------------
(* Corpus.fit *)

\* for left_context, word, right_context in self.region_context_windows(region):
\*     cooccurrence_counts[word].update(chain(left_context, right_context))
RECURSIVE fit_windows(_, _)
fit_windows(counts, triples) ==
    IF triples = <<>>
    THEN counts
    ELSE LET t == Head(triples)
             old == IF t.word \in DOMAIN counts THEN counts[t.word] ELSE <<>>
             new == counter_update(old, t.left_context \o t.right_context)
         IN  fit_windows([x \in DOMAIN counts \cup {t.word} |->
                             IF x = t.word THEN new ELSE counts[x]],
                         Tail(triples))

\* fit's loop with cooccurrence_counts created anew for every region
RECURSIVE fit_loop_reset(_, _, _, _, _)
fit_loop_reset(regions, l_size, r_size, word_counts, counts) ==
    IF regions = <<>>
    THEN [word_counts |-> word_counts, cooccurrence_counts |-> counts]
    ELSE fit_loop_reset(Tail(regions), l_size, r_size,
                  counter_update(word_counts, Head(regions)),
                  fit_windows(<<>>,
                      region_context_windows(Head(regions), l_size, r_size)))

\* for region in self.tokenized_regions(): ...
RECURSIVE fit_loop(_, _, _, _, _)
fit_loop(regions, l_size, r_size, word_counts, counts) ==
    IF regions = <<>>
    THEN [word_counts |-> word_counts, cooccurrence_counts |-> counts]
    ELSE fit_loop(Tail(regions), l_size, r_size,
                  counter_update(word_counts, Head(regions)),
                  fit_windows(counts,
                      region_context_windows(Head(regions), l_size, r_size)))

\* [t[0] for t in word_counts.most_common()]
words_of(word_counts) ==
    LET ranked == most_common(word_counts)
    IN  [k \in DOMAIN ranked |-> ranked[k].word]

\* {word: i for i, word in enumerate(self._words)}
word_index_of(wds) ==
    [w \in Range(wds) |->
        (CHOOSE k \in DOMAIN wds :
            wds[k] = w /\ \A j \in DOMAIN wds : wds[j] = w => j <= k) - 1]

\* dok_matrix with a row and a column more than there are words
dok_matrix_padded(n) == [shape |-> <<n + 1, n + 1>>, data |-> <<>>]

\* dok_matrix((n, n), dtype=np.uint32): a shape and no stored entry
dok_matrix(n) == [shape |-> <<n, n>>, data |-> <<>>]

\* The dict comprehension handed to update: the (x, y) of cooccurrence_counts
\* with y != NULL_WORD, keyed by their indices
matrix_entries(index, counts) ==
    LET CountOf(counter, y) ==
            counter[CHOOSE k \in DOMAIN counter : counter[k].word = y].count
        items == UNION {{<<x, counts[x][k].word>> : k \in DOMAIN counts[x]} :
                           x \in DOMAIN counts}
        pairs == {p \in items : p[2] # NULL_WORD}
        keys == {<<index[p[1]], index[p[2]]>> : p \in pairs}
    IN  [key \in keys |->
            LET p == CHOOSE q \in pairs : <<index[q[1]], index[q[2]]>> = key
            IN  CountOf(counts[p[1]], p[2])]

\* dict.update on the matrix's entries: a given key replaces a stored one
matrix_update(matrix, entries) ==
    [matrix EXCEPT !.data = [key \in DOMAIN entries \cup DOMAIN @ |->
                                IF key \in DOMAIN entries THEN entries[key]
                                ELSE @[key]]]

-----------------------------------------------------------------------------
(* The window generator and the context window iterator on one region. *)

NoCall == [start_index |-> 0, end_index |-> 0, result |-> <<"no call">>]

InitWindow ==
    /\ region \in SeqsOf(Tokens, 0, MaxRegionLen)
    /\ left_size \in 0..MaxSize
    /\ right_size \in 0..MaxSize
    /\ window_call = NoCall
    /\ yielded = <<>>
    /\ corpus = <<>>
    /\ _words = None /\ _word_index = None /\ _cooccurrence_matrix = None
    /\ cooccurrence_counts = None
    /\ fit_calls = 0 /\ fit_outcome = "never" /\ last_access = NoAccess
    /\ phase = "constructed" /\ cls = "Corpus" /\ kwargs = <<>>
    /\ path = <<>> /\ isdir = FALSE /\ listdir = <<>> /\ file_paths = None

\* A call window(region, start_index, end_index)
CallWindow ==
    \E s \in -(MaxSize + 1)..(MaxRegionLen + 2) :
      \E e \in (s - 1)..(MaxRegionLen + MaxSize + 1) :
        /\ window_call' = [start_index |-> s, end_index |-> e,
                           result |-> window(region, s, e)]
        /\ UNCHANGED <<region, yielded, left_size, right_size>>
        /\ UNCHANGED <<fitVars, cacheVars, ctorVars>>

\* One step of the generator region_context_windows(region): the next yield
YieldWindows ==
    /\ Len(yielded) < Len(region)
    /\ yielded' = Append(yielded,
            region_context_windows(region, left_size, right_size)[Len(yielded) + 1])
    /\ UNCHANGED <<region, window_call, left_size, right_size>>
    /\ UNCHANGED <<fitVars, cacheVars, ctorVars>>

NextWindow == CallWindow \/ YieldWindows

SpecWindow == InitWindow /\ [][NextWindow]_vars

-----------------------------------------------------------------------------
(* What window is documented to return: position p of the range            *)
(* start_index..end_index gives region[p] inside the region and NULL_WORD  *)
(* outside it.                                                             *)
WindowIntent(rgn, s, e) ==
    [k \in 1..(e - s + 1) |->
        LET p == s + k - 1
        IN  IF 0 <= p /\ p < Len(rgn) THEN rgn[p + 1] ELSE NULL_WORD]

\* C1: for end_index >= start_index - 1, window returns end_index - start_index + 1
\* elements, the k-th being region[start_index + k] inside the region and
\* NULL_WORD outside it.
C1_WindowIsPaddedRange ==
    window_call # NoCall =>
        window_call.result =
            WindowIntent(region, window_call.start_index, window_call.end_index)

\* C2: region_context_windows yields one triple per position, in order, whose
\* left context has exactly left_size elements and whose right context has
\* exactly right_size elements, out-of-range positions holding NULL_WORD.
C2_TriplesArePaddedContexts ==
    /\ Len(yielded) <= Len(region)
    /\ \A k \in 1..Len(yielded) :
        /\ yielded[k].word = region[k]
        /\ Len(yielded[k].left_context) = left_size
        /\ Len(yielded[k].right_context) = right_size
        /\ yielded[k].left_context = WindowIntent(region, k - 1 - left_size, k - 2)
        /\ yielded[k].right_context = WindowIntent(region, k, k - 1 + right_size)

-----------------------------------------------------------------------------
(* The lazily fitted properties of one constructed Corpus.                 *)

\* A token stream cut into non-empty regions after the positions in cuts
Split(stream, cuts) ==
    IF stream = <<>>
    THEN <<>>
    ELSE LET ends == cuts \cup {Len(stream)}
             EndOf(k) == CHOOSE e \in ends : Cardinality({c \in ends : c <= e}) = k
             StartOf(k) == IF k = 1 THEN 1 ELSE EndOf(k - 1) + 1
         IN  [k \in 1..Cardinality(ends) |-> SubSeq(stream, StartOf(k), EndOf(k))]

Init ==
    /\ \E stream \in SeqsOf(Tokens, 0, MaxTokens) :
         \E cuts \in SUBSET (1..(Len(stream) - 1)) :
            corpus = Split(stream, cuts)
    /\ left_size \in 0..MaxSize
    /\ right_size \in 0..MaxSize
    /\ _words = None /\ _word_index = None /\ _cooccurrence_matrix = None
    /\ cooccurrence_counts = None
    /\ fit_calls = 0 /\ fit_outcome = "never" /\ last_access = NoAccess
    /\ region = <<>> /\ window_call = NoCall /\ yielded = <<>>
    /\ phase = "constructed" /\ cls = "Corpus" /\ kwargs = <<>>
    /\ path = <<>> /\ isdir = FALSE /\ listdir = <<>> /\ file_paths = None

\* is_fit with its test turned around
is_fit_inverted == _words = None

\* Corpus.is_fit
is_fit == _words # None

\* The last run of fit() ran to its last line
fitted == fit_outcome = "returned"

(* Where a run of fit() may raise: "loop" while it reads and tokenizes the *)
(* regions (the region supplier's and the tokenizer's errors), "dok_matrix"*)
(* in the constructor call of line 46, "update" in the call of line 47,    *)
(* "none" when it runs to its last line.                                   *)
RaisePoints == {"none", "loop", "dok_matrix", "update"}

\* Corpus.fit, raising at one of RaisePoints
fit ==
    LET loop == fit_loop(corpus, left_size, right_size, <<>>, <<>>)
        wds == words_of(loop.word_counts)
        index == word_index_of(wds)
        empty == dok_matrix(Len(wds))
        full == matrix_update(empty, matrix_entries(index, loop.cooccurrence_counts))
    IN  \E raise_at \in RaisePoints :
        /\ fit_calls' = fit_calls + 1
        /\ fit_outcome' = IF raise_at = "none" THEN "returned" ELSE "raised"
        /\ IF raise_at = "loop"
           THEN UNCHANGED <<cacheVars, cooccurrence_counts>>
           ELSE /\ cooccurrence_counts' = Some(loop.cooccurrence_counts)
                /\ _words' = Some(wds)
                /\ _word_index' = Some(index)
                /\ _cooccurrence_matrix' =
                      CASE raise_at = "dok_matrix" -> _cooccurrence_matrix
                        [] raise_at = "update" -> Some(empty)
                        [] OTHER -> Some(full)

\* A property getter: run fit first when must_fit, then return the attribute
Getter(must_fit) ==
    /\ IF must_fit
       THEN /\ fit_calls < MaxFitCalls
            /\ fit
       ELSE UNCHANGED <<cacheVars, cooccurrence_counts, fit_calls, fit_outcome>>
    /\ last_access' = [accessed |-> TRUE, ran_fit |-> must_fit,
                       raised |-> must_fit /\ fit_outcome' = "raised"]
    /\ UNCHANGED <<corpus, left_size, right_size, windowVars, ctorVars>>

\* Corpus.words
words == Getter(~is_fit)

\* Corpus.word_index
word_index == Getter(~is_fit)

\* Corpus.cooccurrence_matrix
cooccurrence_matrix == Getter(_cooccurrence_matrix = None)

Next == words \/ word_index \/ cooccurrence_matrix

Spec == Init /\ [][Next]_vars

\* fit() called on the Corpus as constructed
CallFit ==
    /\ fit_calls = 0
    /\ fit
    /\ UNCHANGED <<corpus, left_size, right_size, last_access, windowVars, ctorVars>>

SpecFit == Init /\ [][CallFit]_vars

-----------------------------------------------------------------------------
(* The corpus read directly, without the counters of fit.                  *)

CorpusTokens == UNION {Range(corpus[r]) : r \in DOMAIN corpus}

\* Every (region, position) of the corpus
Positions == UNION {{<<r, i>> : i \in DOMAIN corpus[r]} : r \in DOMAIN corpus}

\* The regions one after the other, as one stream of tokens
RECURSIVE Flatten(_)
Flatten(regions) ==
    IF regions = <<>> THEN <<>> ELSE Head(regions) \o Flatten(Tail(regions))

\* How often token t occurs in the corpus
TotalCount(t) == Cardinality({p \in Positions : corpus[p[1]][p[2]] = t})

\* Where token t is first met when the regions are read in order
FirstSeen(t) ==
    LET stream == Flatten(corpus)
    IN  CHOOSE k \in DOMAIN stream :
            stream[k] = t /\ \A j \in 1..(k - 1) : stream[j] # t

\* The pairs of positions i, j of one region with x at i, y at j, j # i and
\* j within the window of i
PairCount(x, y) ==
    Cardinality({q \in UNION {{<<r, i, j>> : i \in DOMAIN corpus[r],
                                             j \in DOMAIN corpus[r]} :
                              r \in DOMAIN corpus} :
        /\ corpus[q[1]][q[2]] = x
        /\ corpus[q[1]][q[3]] = y
        /\ q[3] # q[2]
        /\ q[2] - left_size <= q[3]
        /\ q[3] <= q[2] + right_size})

\* The matrix entry at (i, j): an absent key reads 0
Entry(matrix, i, j) ==
    IF <<i, j>> \in DOMAIN matrix.data THEN matrix.data[<<i, j>>] ELSE 0

\* C3: after fit(), the entry at (word_index[x], word_index[y]) is the number
\* of position pairs (i, j) of one region with region[i] = x, region[j] = y,
\* j # i and i - left_size <= j <= i + right_size, over all regions; a pair
\* without such positions has no stored entry.
C3_MatrixCountsWindowPairs ==
    fitted =>
        LET matrix == _cooccurrence_matrix.value
            index == _word_index.value
        IN  \A x \in CorpusTokens : \A y \in CorpusTokens :
                /\ Entry(matrix, index[x], index[y]) = PairCount(x, y)
                /\ (<<index[x], index[y]>> \in DOMAIN matrix.data)
                      <=> (PairCount(x, y) > 0)

\* A fit() has returned on a corpus in which x ends one region and y begins
\* the next, x and y are never in one window, and the matrix has entries.
C3_Witness ==
    /\ fitted
    /\ left_size >= 1 /\ right_size >= 1
    /\ DOMAIN _cooccurrence_matrix.value.data # {}
    /\ \E r \in 1..(Len(corpus) - 1) :
          PairCount(corpus[r][Len(corpus[r])], corpus[r + 1][1]) = 0

\* C4: after fit(), word_index is a bijection from the corpus's distinct
\* tokens onto 0..V-1 with word_index[words[k]] = k, and a token with a larger
\* total count, or the same count and an earlier first occurrence, has the
\* smaller index.
C4_IndexRanksByCountThenEncounter ==
    fitted =>
        LET wds == _words.value
            index == _word_index.value
            V == Cardinality(CorpusTokens)
        IN  /\ DOMAIN index = CorpusTokens
            /\ Len(wds) = V
            /\ {index[t] : t \in CorpusTokens} = 0..(V - 1)
            /\ \A k \in DOMAIN wds : index[wds[k]] = k - 1
            /\ \A s \in CorpusTokens : \A t \in CorpusTokens :
                  (\/ TotalCount(s) > TotalCount(t)
                   \/ /\ TotalCount(s) = TotalCount(t)
                      /\ FirstSeen(s) < FirstSeen(t))
                  => index[s] < index[t]

\* A fit() has returned on a corpus whose two tokens tie, "b" met first, and
\* "b" has index 0: the encounter decides, not the alphabet.
C4_Witness ==
    /\ fitted
    /\ CorpusTokens = {"a", "b"}
    /\ TotalCount("a") = TotalCount("b")
    /\ FirstSeen("b") < FirstSeen("a")
    /\ _word_index.value["b"] = 0

\* C8: the tokenizer emitting no NULL_WORD, after fit() NULL_WORD is neither
\* in words nor a key of word_index, the matrix shape is V x V for V distinct
\* tokens, and every stored key lies in 0..V-1 x 0..V-1.
C8_NoNullRowOrColumn ==
    (fitted /\ NULL_WORD \notin CorpusTokens) =>
        LET V == Cardinality(CorpusTokens)
            matrix == _cooccurrence_matrix.value
        IN  /\ NULL_WORD \notin Range(_words.value)
            /\ NULL_WORD \notin DOMAIN _word_index.value
            /\ matrix.shape = <<V, V>>
            /\ \A key \in DOMAIN matrix.data :
                  key[1] \in 0..(V - 1) /\ key[2] \in 0..(V - 1)

\* A fit() has returned after counting NULL_WORD as a context, and the matrix
\* holds entries.
C8_Witness ==
    /\ fitted
    /\ \E x \in DOMAIN cooccurrence_counts.value :
          \E k \in DOMAIN cooccurrence_counts.value[x] :
             cooccurrence_counts.value[x][k].word = NULL_WORD
    /\ DOMAIN _cooccurrence_matrix.value.data # {}

-----------------------------------------------------------------------------
(* The raw counts as one mapping from (focus, context) to a count.         *)

Flat(counts) ==
    LET items == UNION {{<<x, k>> : k \in DOMAIN counts[x]} : x \in DOMAIN counts}
    IN  [p \in {<<q[1], counts[q[1]][q[2]].word>> : q \in items} |->
            LET q == CHOOSE q \in items : counts[q[1]][q[2]].word = p[2] /\ q[1] = p[1]
            IN  counts[q[1]][q[2]].count]

KeySum(f, g) ==
    [p \in DOMAIN f \cup DOMAIN g |->
        (IF p \in DOMAIN f THEN f[p] ELSE 0) + (IF p \in DOMAIN g THEN g[p] ELSE 0)]

\* The mapping fit's loop leaves for these regions
RawCounts(regions) ==
    Flat(fit_loop(regions, left_size, right_size, <<>>, <<>>).cooccurrence_counts)

\* The regions of the corpus at the indices in S, in the corpus's order
SubCorpus(S) ==
    LET Nth(k) == CHOOSE i \in S : Cardinality({j \in S : j <= i}) = k
    IN  [k \in 1..Cardinality(S) |-> corpus[Nth(k)]]

\* The key-wise sum of the mappings of the first k regions, each on its own
RECURSIVE SumOfRegions(_)
SumOfRegions(k) ==
    IF k = 0 THEN RawCounts(<<>>)
    ELSE KeySum(SumOfRegions(k - 1), RawCounts(<<corpus[k]>>))

\* C7: the raw (focus, context) counts of fit() are the key-wise sum of the
\* counts of each region on its own: every permutation of the regions gives
\* the same counts, NULL_WORD contexts included, and the counts of two
\* disjoint sub-corpora sum to the counts of the whole.
C7_CountsAreAdditive ==
    cooccurrence_counts # None =>
        LET whole == Flat(cooccurrence_counts.value)
        IN  /\ whole = SumOfRegions(Len(corpus))
            /\ \A perm \in Permutations(DOMAIN corpus) :
                  RawCounts([k \in DOMAIN corpus |-> corpus[perm[k]]]) = whole
            /\ \A S \in SUBSET DOMAIN corpus :
                  KeySum(RawCounts(SubCorpus(S)),
                         RawCounts(SubCorpus(DOMAIN corpus \ S))) = whole

\* fit() has counted a corpus of several regions in which one (focus, context)
\* pair, and a NULL_WORD context, were counted in more than one region.
C7_Witness ==
    /\ cooccurrence_counts # None
    /\ Len(corpus) >= 2
    /\ \E p \in DOMAIN Flat(cooccurrence_counts.value) :
          /\ Flat(cooccurrence_counts.value)[p] >= 2
          /\ \A r \in DOMAIN corpus :
                p \in DOMAIN RawCounts(<<corpus[r]>>)
                   => RawCounts(<<corpus[r]>>)[p] < Flat(cooccurrence_counts.value)[p]
    /\ \E x \in Tokens :
          /\ <<x, NULL_WORD>> \in DOMAIN Flat(cooccurrence_counts.value)
          /\ Flat(cooccurrence_counts.value)[<<x, NULL_WORD>>] >= 2

-----------------------------------------------------------------------------
(* What the lazily fitted properties are said to do.                       *)

\* C5 as stated: whatever the accesses, fit() runs exactly once, on the first
\* access, and never again.
C5_FitRunsExactlyOnce == last_access.accessed => fit_calls = 1

\* C5 amended: the first access runs fit(), and once a run of fit() has
\* returned, every later access leaves the cached attributes alone, runs no
\* fit() and does not raise.
C5_NoFitAfterCompletedFit ==
    [][/\ fit_calls = 0 => (fit_calls' = 1 /\ last_access'.ran_fit)
       /\ fitted => /\ fit_calls' = fit_calls
                    /\ ~last_access'.ran_fit
                    /\ ~last_access'.raised
                    /\ UNCHANGED cacheVars]_vars

\* A first run of fit() raised, a second returned, and the access after it was
\* served from the cache.
C5_Witness ==
    /\ fitted
    /\ fit_calls = 2
    /\ last_access.accessed
    /\ ~last_access.ran_fit

\* C10: in every reachable state is_fit() holds exactly when aggregation has
\* completed, the vocabulary, the index and the matrix all being set; a fit()
\* that raises leaves is_fit() false.
C10_IsFitIffAggregationCompleted ==
    /\ is_fit <=> fitted
    /\ is_fit => (_word_index # None /\ _cooccurrence_matrix # None)
    /\ fit_outcome = "raised" => ~is_fit

-----------------------------------------------------------------------------
(* The constructors.  A path and a directory entry are sequences of        *)
(* characters, so that startswith and os.path.join act on them.            *)

\* An attribute the constructor has not assigned
Unset == [unset |-> TRUE]

\* The keyword arguments a caller may pass, with values in 0..MaxSize
Keys == {"size", "left_size", "right_size", "other"}

KwargsSets == UNION {[K -> 0..MaxSize] : K \in SUBSET Keys}

\* No keyword argument at all
NoKwargs == [k \in {} |-> 0]

\* The directory entries os.listdir may report, in any order
Names == {<<".", "g">>, <<"a">>, <<"b", ".", "j">>}

Listings ==
    {l \in SeqsOf(Names, 0, Cardinality(Names)) :
        \A i \in DOMAIN l : \A j \in DOMAIN l : i # j => l[i] # l[j]}

\* kwargs.get(key, default)
get(kw, key, default) == IF key \in DOMAIN kw THEN kw[key] ELSE default

\* Corpus.__init__ with only left_size counting as a window size
Corpus_init_left_only(kw) ==
    IF "size" \in DOMAIN kw
    THEN [raised |-> FALSE, left_size |-> kw["size"], right_size |-> kw["size"]]
    ELSE IF "left_size" \in DOMAIN kw
         THEN [raised |-> FALSE, left_size |-> get(kw, "left_size", 0),
               right_size |-> get(kw, "right_size", 0)]
         ELSE [raised |-> TRUE, left_size |-> Unset, right_size |-> Unset]

\* Corpus.__init__(**kw), up to the raise of line 26: whether it raises
\* KeyError, and the sizes it assigns
Corpus_init(kw) ==
    IF "size" \in DOMAIN kw
    THEN [raised |-> FALSE, left_size |-> kw["size"], right_size |-> kw["size"]]
    ELSE IF "left_size" \in DOMAIN kw \/ "right_size" \in DOMAIN kw
         THEN [raised |-> FALSE, left_size |-> get(kw, "left_size", 0),
               right_size |-> get(kw, "right_size", 0)]
         ELSE [raised |-> TRUE, left_size |-> Unset, right_size |-> Unset]

\* name.startswith('.')
startswith_dot(name) == Len(name) >= 1 /\ name[1] = "."

\* filter(lambda p: not p.startswith('.'), names), consumed
RECURSIVE filter_not_dot(_)
filter_not_dot(names) ==
    IF names = <<>> THEN <<>>
    ELSE IF startswith_dot(Head(names)) THEN filter_not_dot(Tail(names))
         ELSE <<Head(names)>> \o filter_not_dot(Tail(names))

\* os.path.join(dir, name) for a relative name and a dir without a final "/"
join(dir, name) == dir \o <<"/">> \o name

\* The file list lines 129-133 build
reddit_file_paths ==
    IF isdir
    THEN LET file_names == filter_not_dot(listdir)
         IN  [k \in DOMAIN file_names |-> join(path, file_names[k])]
    ELSE <<path>>

InitConstruct ==
    /\ phase = "new" /\ cls = "" /\ kwargs = NoKwargs
    /\ path = <<"d">>
    /\ isdir \in BOOLEAN
    /\ listdir \in Listings
    /\ (~isdir => listdir = <<>>)
    /\ file_paths = Unset
    /\ left_size = Unset /\ right_size = Unset
    /\ _words = Unset /\ _word_index = Unset /\ _cooccurrence_matrix = Unset
    /\ cooccurrence_counts = None
    /\ fit_calls = 0 /\ fit_outcome = "never" /\ last_access = NoAccess
    /\ corpus = <<>>
    /\ region = <<>> /\ window_call = NoCall /\ yielded = <<>>

\* The body of Corpus.__init__ on the object under construction
RunCorpusInit(kw) ==
    LET r == Corpus_init(kw)
    IN  /\ kwargs' = kw
        /\ left_size' = r.left_size
        /\ right_size' = r.right_size
        /\ IF r.raised
           THEN UNCHANGED cacheVars
           ELSE _words' = None /\ _word_index' = None /\ _cooccurrence_matrix' = None

\* Corpus(**kw)
ConstructCorpus ==
    /\ phase = "new"
    /\ \E kw \in KwargsSets :
          /\ RunCorpusInit(kw)
          /\ phase' = IF Corpus_init(kw).raised THEN "raised" ELSE "constructed"
    /\ cls' = "Corpus"
    /\ UNCHANGED <<path, isdir, listdir, file_paths, windowVars, fitVars>>

\* RedditCorpus(path): super().__init__() is called without arguments
ConstructRedditCorpus ==
    /\ phase = "new"
    /\ RunCorpusInit(NoKwargs)
    /\ IF Corpus_init(NoKwargs).raised
       THEN phase' = "raised" /\ UNCHANGED file_paths
       ELSE phase' = "constructed" /\ file_paths' = Some(reddit_file_paths)
    /\ cls' = "RedditCorpus"
    /\ UNCHANGED <<path, isdir, listdir, windowVars, fitVars>>

NextConstruct == ConstructCorpus \/ ConstructRedditCorpus

SpecConstruct == InitConstruct /\ [][NextConstruct]_vars

\* The window sizes among the keyword arguments
SizeKeys == {"size", "left_size", "right_size"}

\* C6: constructing a Corpus raises, at construction and before any fit(),
\* exactly when none of size, left_size and right_size is given; with one of
\* them given the object is constructed and unfit.
C6_RaisesIffNoSizeGiven ==
    phase # "new" =>
        /\ phase = "raised" <=> DOMAIN kwargs \cap SizeKeys = {}
        /\ phase = "raised" => (fit_calls = 0 /\ _words = Unset)
        /\ phase = "constructed" =>
              /\ ~is_fit
              /\ _words = None /\ _word_index = None /\ _cooccurrence_matrix = None
              /\ fit_calls = 0

\* Corpus(right_size=...) has been constructed: left_size is 0 by default.
C6_Witness ==
    /\ cls = "Corpus"
    /\ phase = "constructed"
    /\ DOMAIN kwargs = {"right_size"}
    /\ left_size = 0 /\ right_size = kwargs["right_size"]

\* C9: RedditCorpus(path) is constructed, with file_paths [path] for a file
\* and the joined paths of the entries not starting with "." for a directory.
C9_RedditCorpusListsFiles ==
    (cls = "RedditCorpus" /\ phase # "new") =>
        /\ phase = "constructed"
        /\ file_paths = Some(reddit_file_paths)

=============================================================================
